---- MODULE Spec2Model ----
(***************************************************************************)
(* yt-liveread: the concurrent message pipeline.                           *)
(*                                                                         *)
(*   main.py         main()            the Orchestrator (main thread)      *)
(*   chat_reader.py  ChatReader._run   the Ingestion Worker (thread)       *)
(*   tts_speaker.py  TTSSpeaker._run   the Speech Worker (thread)          *)
(*                                                                         *)
(* Each thread is a program counter over the lines at which it touches     *)
(* shared state or an external collaborator; one action is one such step.  *)
(* Strings are sequences of one-character strings.  A Queued Item is the   *)
(* formatted string together with the ordinal of the pull that produced    *)
(* it (field id), which only serves to tell equal strings apart.           *)
(* The variables attempted, pushed, popped, spoken and pausedAtShutdown    *)
(* are history variables: they record what the threads did and are never   *)
(* read by an action's guard.                                              *)
(* Worker steps stay enabled after main() has returned: the teardown of    *)
(* daemon threads at interpreter exit is not part of the model.            *)
(***************************************************************************)
EXTENDS Integers, Sequences, FiniteSets, TLC

VARIABLES
    config,            \* Config built by main() from the command line
    mainPc,            \* position of main()
    cmd,               \* main(): the local cmd
    message_queue,     \* queue.Queue(maxsize=config.queue_max_size)
    pause_event,       \* threading.Event; set (TRUE) = not paused
    shutdown_event,    \* threading.Event
    ready_event,       \* TTSSpeaker.ready_event
    chatPc,            \* position of ChatReader._run
    downloader,        \* ChatReader._run: the local downloader
    chat,              \* ChatReader._run: the local chat
    pulled,            \* number of messages the upstream source has yielded
    message,           \* ChatReader._run: the loop variable message
    formatted,         \* ChatReader._run: the local formatted
    message_count,     \* ChatReader._run: the local message_count
    spkPc,             \* position of TTSSpeaker._run
    client,            \* TTSSpeaker.client
    text,              \* TTSSpeaker._run: the local text
    attempted,         \* history: items handed to message_queue.put
    pushed,            \* history: items message_queue.put accepted
    popped,            \* history: items message_queue.get returned
    spoken,            \* history: items handed to client.speak
    pausedAtShutdown   \* history: shutdown was first set while paused with items buffered

vars == <<config, mainPc, cmd, message_queue, pause_event, shutdown_event,
          ready_event, chatPc, downloader, chat, pulled, message, formatted,
          message_count, spkPc, client, text, attempted, pushed, popped,
          spoken, pausedAtShutdown>>

mainVars == <<mainPc, cmd>>
chatVars == <<chatPc, downloader, chat, pulled, message, formatted, message_count>>
spkVars  == <<spkPc, client, text>>
histVars == <<attempted, pushed, popped, spoken>>

(***************************************************************************)
(* Bounds                                                                  *)
(***************************************************************************)
MaxCap  == 2     \* largest queue_max_size tried
MaxMsgs == 3     \* messages the upstream source yields at most

(***************************************************************************)
(* Strings                                                                 *)
(***************************************************************************)
None       == "None"          \* None where the other values are strings
NoText     == <<"None">>      \* None where the other values are str
SaysStr    == <<" ", "s", "a", "y", "s", ":", " ">>
Ellipsis   == <<".", ".", ".">>
LinkStr    == <<"[", "l", "i", "n", "k", "]">>
HttpStr    == <<"h", "t", "t", "p">>
UnknownStr == <<"U", "n", "k", "n", "o", "w", "n">>
Hi         == <<"h", "i">>
UrlY       == <<"h", "t", "t", "p", "x", " ", "y">>

Min(a, b) == IF a <= b THEN a ELSE b

IsSpace(c) == c = " "

\* length of the longest prefix of s made of non-whitespace characters (\S*)
RECURSIVE NonSpaceRun(_)
NonSpaceRun(s) ==
    IF s = <<>> \/ IsSpace(Head(s)) THEN 0 ELSE 1 + NonSpaceRun(Tail(s))

\* re.sub(r"http\S+", "[link]", s)
RECURSIVE ReplaceUrls(_)
ReplaceUrls(s) ==
    IF s = <<>> THEN <<>>
    ELSE IF Len(s) >= 5 /\ SubSeq(s, 1, 4) = HttpStr /\ ~IsSpace(s[5])
         THEN LET n == 4 + NonSpaceRun(SubSeq(s, 5, Len(s)))
              IN  LinkStr \o ReplaceUrls(SubSeq(s, n + 1, Len(s)))
         ELSE <<Head(s)>> \o ReplaceUrls(Tail(s))

(***************************************************************************)
(* Inputs                                                                  *)
(***************************************************************************)
\* the raw messages the upstream source may yield (chat-downloader dicts)
\* a text message with a URL in it, a text message with an empty body and no
\* author, and a message of another kind that has a body
RawMessages ==
    { [message_type |-> "text_message", author |-> <<"A">>, message |-> UrlY],
      [message_type |-> "text_message", message |-> <<>>],
      [message_type |-> "system_event", author |-> <<"B">>, message |-> Hi] }

NoMessage == [message_type |-> None]     \* message before the first pull
NoItem    == [id |-> 0, text |-> <<>>]   \* text before the first get

DefaultConfig ==
    [youtube_url        |-> "url",
     speech_rate        |-> 0,
     speech_volume      |-> 100,
     speech_pitch       |-> 0,
     max_message_length |-> 200,
     include_username   |-> TRUE,
     queue_max_size     |-> 50]

\* the configurations main() is run with: capacity 1 with every other value
\* on the bound that Config.validate checks (the shortest max_message_length,
\* no user names), the defaults with every larger capacity up to MaxCap, and
\* one configuration just outside each bound
ValidConfigs ==
    { [DefaultConfig EXCEPT !.queue_max_size = 1,
                            !.max_message_length = 1,
                            !.include_username = FALSE,
                            !.speech_rate = -100,
                            !.speech_volume = 0,
                            !.speech_pitch = 100] }
    \cup { [DefaultConfig EXCEPT !.queue_max_size = c] : c \in 2..MaxCap }

InvalidConfigs ==
    { [DefaultConfig EXCEPT !.youtube_url = ""],
      [DefaultConfig EXCEPT !.speech_rate = -101],
      [DefaultConfig EXCEPT !.speech_rate = 101],
      [DefaultConfig EXCEPT !.speech_volume = -1],
      [DefaultConfig EXCEPT !.speech_volume = 101],
      [DefaultConfig EXCEPT !.speech_pitch = -101],
      [DefaultConfig EXCEPT !.speech_pitch = 101],
      [DefaultConfig EXCEPT !.max_message_length = 0],
      [DefaultConfig EXCEPT !.queue_max_size = 0] }

Configs == ValidConfigs \cup InvalidConfigs

(***************************************************************************)
(* config.py                                                               *)
(***************************************************************************)
\* Config.validate: TRUE when no ValueError is raised
\* validate with a capacity check that lets capacity 0 through
validateCapacityZero(c) ==
    /\ c.youtube_url # ""
    /\ -100 <= c.speech_rate /\ c.speech_rate <= 100
    /\ 0 <= c.speech_volume /\ c.speech_volume <= 100
    /\ -100 <= c.speech_pitch /\ c.speech_pitch <= 100
    /\ ~(c.max_message_length < 1)
    /\ ~(c.queue_max_size < 0)

validate(c) ==
    /\ c.youtube_url # ""
    /\ -100 <= c.speech_rate /\ c.speech_rate <= 100
    /\ 0 <= c.speech_volume /\ c.speech_volume <= 100
    /\ -100 <= c.speech_pitch /\ c.speech_pitch <= 100
    /\ ~(c.max_message_length < 1)
    /\ ~(c.queue_max_size < 1)

(***************************************************************************)
(* chat_reader.py: ChatReader._format_message                              *)
(***************************************************************************)
\* _format_message without the test of the message kind of lines 37-38
_format_messageAnyKind(m) ==
    IF m.message = <<>> THEN NoText
    ELSE LET author == IF "author" \in DOMAIN m THEN m.author ELSE UnknownStr
             cut    == IF Len(m.message) > config.max_message_length
                       THEN SubSeq(m.message, 1, config.max_message_length) \o Ellipsis
                       ELSE m.message
             body   == ReplaceUrls(cut)
         IN  IF config.include_username THEN author \o SaysStr \o body ELSE body

_format_message(m) ==
    IF m.message_type # "text_message" THEN NoText
    ELSE IF m.message = <<>> THEN NoText
    ELSE LET author == IF "author" \in DOMAIN m THEN m.author ELSE UnknownStr
             cut    == IF Len(m.message) > config.max_message_length
                       THEN SubSeq(m.message, 1, config.max_message_length) \o Ellipsis
                       ELSE m.message
             body   == ReplaceUrls(cut)
         IN  IF config.include_username THEN author \o SaysStr \o body ELSE body

\* a Queued Item: the formatted string of the n-th pulled message
Item(n, str) == [id |-> n, text |-> str]

(***************************************************************************)
(* The signals                                                             *)
(***************************************************************************)
\* SetShutdown with an event that is toggled rather than set
SetShutdownToggle ==
    /\ shutdown_event' = ~shutdown_event
    /\ pausedAtShutdown' =
          IF shutdown_event THEN pausedAtShutdown
          ELSE ~pause_event /\ message_queue # <<>>

\* shutdown_event.set(), with the history of the moment it is first set
SetShutdown ==
    /\ shutdown_event' = TRUE
    /\ pausedAtShutdown' =
          IF shutdown_event THEN pausedAtShutdown
          ELSE ~pause_event /\ message_queue # <<>>

Terminated(pc) == pc \in {"stopped", "failed"}

(***************************************************************************)
(* Initial state: main() is about to validate the configuration            *)
(***************************************************************************)
Init ==
    /\ config \in Configs
    /\ mainPc = "validate"
    /\ cmd = None
    /\ message_queue = <<>>
    /\ pause_event = TRUE
    /\ shutdown_event = FALSE
    /\ ready_event = FALSE
    /\ chatPc = "idle"
    /\ downloader = None
    /\ chat = None
    /\ pulled = 0
    /\ message = NoMessage
    /\ formatted = NoText
    /\ message_count = 0
    /\ spkPc = "idle"
    /\ client = None
    /\ text = NoItem
    /\ attempted = <<>>
    /\ pushed = <<>>
    /\ popped = <<>>
    /\ spoken = <<>>
    /\ pausedAtShutdown = FALSE

(***************************************************************************)
(* main.py: main()                                                         *)
(***************************************************************************)
\* lines 155-171: config.validate(); sys.exit(1) on ValueError, otherwise
\* the queue, the events and the SIGINT handler are created
MainValidate ==
    /\ mainPc = "validate"
    /\ mainPc' = IF validate(config) THEN "start_tts" ELSE "exit1"
    /\ UNCHANGED <<config, cmd, message_queue, pause_event, shutdown_event,
                   ready_event, chatVars, spkVars, histVars, pausedAtShutdown>>

\* line 185: tts_speaker.start()
MainStartTts ==
    /\ mainPc = "start_tts"
    /\ spkPc = "idle"
    /\ spkPc' = "setup"
    /\ mainPc' = "start_chat"
    /\ UNCHANGED <<config, cmd, message_queue, pause_event, shutdown_event,
                   ready_event, chatVars, client, text, histVars, pausedAtShutdown>>

\* line 186: chat_reader.start()
MainStartChat ==
    /\ mainPc = "start_chat"
    /\ chatPc = "idle"
    /\ chatPc' = "construct"
    /\ mainPc' = "loop"
    /\ UNCHANGED <<config, cmd, message_queue, pause_event, shutdown_event,
                   ready_event, downloader, chat, pulled, message, formatted,
                   message_count, spkVars, histVars, pausedAtShutdown>>

\* line 195: while not shutdown_event.is_set()
MainLoop ==
    /\ mainPc = "loop"
    /\ mainPc' = IF shutdown_event THEN "join_chat" ELSE "input"
    /\ UNCHANGED <<config, cmd, message_queue, pause_event, shutdown_event,
                   ready_event, chatVars, spkVars, histVars, pausedAtShutdown>>

\* what the operator types, after .strip().lower()
Commands == {"p", "q", "", "x"}

\* line 197: cmd = input().strip().lower() returns a line
MainInput ==
    /\ mainPc = "input"
    /\ \E c \in Commands : cmd' = c
    /\ mainPc' = "dispatch"
    /\ UNCHANGED <<config, message_queue, pause_event, shutdown_event,
                   ready_event, chatVars, spkVars, histVars, pausedAtShutdown>>

\* lines 220-222: input() raises EOFError; break
MainEOF ==
    /\ mainPc = "input"
    /\ mainPc' = "join_chat"
    /\ UNCHANGED <<config, cmd, message_queue, pause_event, shutdown_event,
                   ready_event, chatVars, spkVars, histVars, pausedAtShutdown>>

\* lines 224-226: any other Exception raised in the loop; shutdown_event.set()
MainFault ==
    /\ mainPc = "input"
    /\ SetShutdown
    /\ mainPc' = "join_chat"
    /\ UNCHANGED <<config, cmd, message_queue, pause_event,
                   ready_event, chatVars, spkVars, histVars>>

\* lines 199-218: the command is carried out
MainDispatch ==
    /\ mainPc = "dispatch"
    /\ \/ /\ cmd = "p"
          /\ pause_event' = ~pause_event
          /\ mainPc' = "loop"
          /\ UNCHANGED <<shutdown_event, pausedAtShutdown>>
       \/ /\ cmd = "q"
          /\ SetShutdown
          /\ mainPc' = "join_chat"
          /\ UNCHANGED pause_event
       \/ /\ cmd \notin {"p", "q"}
          /\ mainPc' = "loop"
          /\ UNCHANGED <<pause_event, shutdown_event, pausedAtShutdown>>
    /\ UNCHANGED <<config, cmd, message_queue,
                   ready_event, chatVars, spkVars, histVars>>

\* line 231: chat_reader.join(timeout=2) returns, the thread finished or not
MainJoinChat ==
    /\ mainPc = "join_chat"
    /\ mainPc' = "join_tts"
    /\ UNCHANGED <<config, cmd, message_queue, pause_event, shutdown_event,
                   ready_event, chatVars, spkVars, histVars, pausedAtShutdown>>

\* MainJoinTts with a join that has no timeout
MainJoinTtsNoTimeout ==
    /\ mainPc = "join_tts"
    /\ Terminated(spkPc)
    /\ mainPc' = "done"
    /\ UNCHANGED <<config, cmd, message_queue, pause_event, shutdown_event,
                   ready_event, chatVars, spkVars, histVars, pausedAtShutdown>>

\* line 232: tts_speaker.join(timeout=2) returns, the thread finished or not
MainJoinTts ==
    /\ mainPc = "join_tts"
    /\ mainPc' = "done"
    /\ UNCHANGED <<config, cmd, message_queue, pause_event, shutdown_event,
                   ready_event, chatVars, spkVars, histVars, pausedAtShutdown>>

\* lines 130-133, installed at 169-171: SIGINT runs signal_handler in the
\* main thread; whatever main() was blocked in is resumed afterwards
SigInt ==
    /\ mainPc \notin {"validate", "exit1", "done"}
    /\ SetShutdown
    /\ UNCHANGED <<config, mainVars, message_queue, pause_event,
                   ready_event, chatVars, spkVars, histVars>>

(***************************************************************************)
(* chat_reader.py: ChatReader._run                                         *)
(***************************************************************************)
\* line 70: downloader = ChatDownloader(**downloader_params); an exception
\* raised here is outside the inner try and lands in the handler of line 141
ChatConstruct ==
    /\ chatPc = "construct"
    /\ \/ downloader' = "ok" /\ chatPc' = "get_chat"
       \/ downloader' = downloader /\ chatPc' = "except"
    /\ UNCHANGED <<config, mainVars, message_queue, pause_event, shutdown_event,
                   ready_event, chat, pulled, message, formatted, message_count,
                   spkVars, histVars, pausedAtShutdown>>

\* lines 73-78: chat = downloader.get_chat(...) succeeds
ChatGetChat ==
    /\ chatPc = "get_chat"
    /\ chat' = "open"
    /\ chatPc' = "pull"
    /\ UNCHANGED <<config, mainVars, message_queue, pause_event, shutdown_event,
                   ready_event, downloader, pulled, message, formatted,
                   message_count, spkVars, histVars, pausedAtShutdown>>

\* ChatGetChatFail without shutdown_event.set()
ChatGetChatFailQuiet ==
    /\ chatPc = "get_chat"
    /\ chatPc' = "failed"
    /\ UNCHANGED <<config, mainVars, message_queue, pause_event, shutdown_event,
                   ready_event, downloader, chat, pulled, message, formatted,
                   message_count, spkVars, histVars, pausedAtShutdown>>

\* lines 79-111: get_chat raises ValueError or another Exception;
\* shutdown_event.set(); return
ChatGetChatFail ==
    /\ chatPc = "get_chat"
    /\ SetShutdown
    /\ chatPc' = "failed"
    /\ UNCHANGED <<config, mainVars, message_queue, pause_event,
                   ready_event, downloader, chat, pulled, message, formatted,
                   message_count, spkVars, histVars>>

\* line 115: for message in chat; the source yields the next raw message
ChatPull ==
    /\ chatPc = "pull"
    /\ pulled < MaxMsgs
    /\ \E m \in RawMessages : message' = m
    /\ pulled' = pulled + 1
    /\ chatPc' = "check"
    /\ UNCHANGED <<config, mainVars, message_queue, pause_event, shutdown_event,
                   ready_event, downloader, chat, formatted, message_count,
                   spkVars, histVars, pausedAtShutdown>>

\* line 115: the source signals end-of-stream; lines 136-137, 147
ChatEndOfStream ==
    /\ chatPc = "pull"
    /\ chatPc' = "stopped"
    /\ UNCHANGED <<config, mainVars, message_queue, pause_event, shutdown_event,
                   ready_event, downloader, chat, pulled, message, formatted,
                   message_count, spkVars, histVars, pausedAtShutdown>>

\* line 115: the pull raises; the exception lands in the handler of line 141
ChatPullFault ==
    /\ chatPc = "pull"
    /\ chatPc' = "except"
    /\ UNCHANGED <<config, mainVars, message_queue, pause_event, shutdown_event,
                   ready_event, downloader, chat, pulled, message, formatted,
                   message_count, spkVars, histVars, pausedAtShutdown>>

\* ChatCheck without the shutdown check of lines 117-118
ChatCheckNoShutdown ==
    /\ chatPc = "check"
    /\ formatted' = _format_message(message)
    /\ chatPc' = IF formatted' # NoText /\ formatted' # <<>>
                 THEN "put" ELSE "pull"
    /\ UNCHANGED <<config, mainVars, message_queue, pause_event, shutdown_event,
                   ready_event, downloader, chat, pulled, message,
                   message_count, spkVars, histVars, pausedAtShutdown>>

\* lines 117-122: the shutdown check, then formatted = _format_message(message)
ChatCheck ==
    /\ chatPc = "check"
    /\ IF shutdown_event
       THEN /\ chatPc' = "stopped"
            /\ UNCHANGED formatted
       ELSE /\ formatted' = _format_message(message)
            /\ chatPc' = IF formatted' # NoText /\ formatted' # <<>>
                         THEN "put" ELSE "pull"
    /\ UNCHANGED <<config, mainVars, message_queue, pause_event, shutdown_event,
                   ready_event, downloader, chat, pulled, message,
                   message_count, spkVars, histVars, pausedAtShutdown>>

\* lines 125-126: message_queue.put(formatted, timeout=0.1) finds a free slot
ChatPut ==
    /\ chatPc = "put"
    /\ Len(message_queue) < config.queue_max_size
    /\ message_queue' = Append(message_queue, Item(pulled, formatted))
    /\ message_count' = message_count + 1
    /\ attempted' = Append(attempted, Item(pulled, formatted))
    /\ pushed' = Append(pushed, Item(pulled, formatted))
    /\ chatPc' = "pull"
    /\ UNCHANGED <<config, mainVars, pause_event, shutdown_event, ready_event,
                   downloader, chat, pulled, message, formatted,
                   spkVars, popped, spoken, pausedAtShutdown>>

\* ChatPutFull with a put that grows the queue past maxsize
ChatPutFullGrows ==
    /\ chatPc = "put"
    /\ Len(message_queue) >= config.queue_max_size
    /\ message_queue' = Append(message_queue, Item(pulled, formatted))
    /\ attempted' = Append(attempted, Item(pulled, formatted))
    /\ pushed' = Append(pushed, Item(pulled, formatted))
    /\ chatPc' = "pull"
    /\ UNCHANGED <<config, mainVars, pause_event, shutdown_event,
                   ready_event, downloader, chat, pulled, message, formatted,
                   message_count, spkVars, popped, spoken, pausedAtShutdown>>

\* ChatPutFull with a drop-oldest policy
ChatPutFullDropOldest ==
    /\ chatPc = "put"
    /\ Len(message_queue) >= config.queue_max_size
    /\ message_queue' = Append(Tail(message_queue), Item(pulled, formatted))
    /\ attempted' = Append(attempted, Item(pulled, formatted))
    /\ pushed' = Append(pushed, Item(pulled, formatted))
    /\ chatPc' = "pull"
    /\ UNCHANGED <<config, mainVars, pause_event, shutdown_event,
                   ready_event, downloader, chat, pulled, message, formatted,
                   message_count, spkVars, popped, spoken, pausedAtShutdown>>

\* lines 125, 132-134: the queue stays full for the whole timeout; put raises
\* queue.Full, which is swallowed
ChatPutFull ==
    /\ chatPc = "put"
    /\ Len(message_queue) >= config.queue_max_size
    /\ attempted' = Append(attempted, Item(pulled, formatted))
    /\ chatPc' = "pull"
    /\ UNCHANGED <<config, mainVars, message_queue, pause_event, shutdown_event,
                   ready_event, downloader, chat, pulled, message, formatted,
                   message_count, spkVars, pushed, popped, spoken,
                   pausedAtShutdown>>

\* ChatExcept with a handler that goes back to the streaming loop
ChatExceptRetry ==
    /\ chatPc = "except"
    /\ chatPc' = "pull"
    /\ UNCHANGED <<config, mainVars, message_queue, pause_event, shutdown_event,
                   ready_event, downloader, chat, pulled, message, formatted,
                   message_count, spkVars, histVars, pausedAtShutdown>>

\* lines 141-147: the outer handler logs the exception; the thread ends
ChatExcept ==
    /\ chatPc = "except"
    /\ chatPc' = "stopped"
    /\ UNCHANGED <<config, mainVars, message_queue, pause_event, shutdown_event,
                   ready_event, downloader, chat, pulled, message, formatted,
                   message_count, spkVars, histVars, pausedAtShutdown>>

(***************************************************************************)
(* tts_speaker.py: TTSSpeaker._run                                         *)
(***************************************************************************)
\* lines 36-61, 65: _setup_client(): the connection fails (client stays
\* None), a set_* call fails (client is left connected), or all succeed
SpkSetup ==
    /\ spkPc = "setup"
    /\ \/ client' = client /\ spkPc' = "ready_failed"
       \/ client' = "open" /\ spkPc' = "ready_failed"
       \/ client' = "open" /\ spkPc' = "ready"
    /\ UNCHANGED <<config, mainVars, message_queue, pause_event, shutdown_event,
                   ready_event, chatVars, text, histVars, pausedAtShutdown>>

\* SpkReadyFailed without ready_event.set()
SpkReadyFailedNoSignal ==
    /\ spkPc = "ready_failed"
    /\ spkPc' = "failed"
    /\ UNCHANGED <<config, mainVars, message_queue, pause_event, shutdown_event,
                   ready_event, chatVars, client, text, histVars,
                   pausedAtShutdown>>

\* lines 66-67: ready_event.set(); return
SpkReadyFailed ==
    /\ spkPc = "ready_failed"
    /\ ready_event' = TRUE
    /\ spkPc' = "failed"
    /\ UNCHANGED <<config, mainVars, message_queue, pause_event, shutdown_event,
                   chatVars, client, text, histVars, pausedAtShutdown>>

\* line 70: ready_event.set()
SpkReady ==
    /\ spkPc = "ready"
    /\ ready_event' = TRUE
    /\ spkPc' = "loop"
    /\ UNCHANGED <<config, mainVars, message_queue, pause_event, shutdown_event,
                   chatVars, client, text, histVars, pausedAtShutdown>>

\* line 73: while not self.shutdown_event.is_set()
SpkLoop ==
    /\ spkPc = "loop"
    /\ spkPc' = IF shutdown_event THEN "cleanup" ELSE "get"
    /\ UNCHANGED <<config, mainVars, message_queue, pause_event, shutdown_event,
                   ready_event, chatVars, client, text, histVars, pausedAtShutdown>>

\* SpkGet taking the newest item instead of the oldest
SpkGetLast ==
    /\ spkPc = "get"
    /\ message_queue # <<>>
    /\ text' = message_queue[Len(message_queue)]
    /\ message_queue' = SubSeq(message_queue, 1, Len(message_queue) - 1)
    /\ popped' = Append(popped, message_queue[Len(message_queue)])
    /\ spkPc' = "pause_wait"
    /\ UNCHANGED <<config, mainVars, pause_event, shutdown_event, ready_event,
                   chatVars, client, attempted, pushed, spoken, pausedAtShutdown>>

\* line 77: text = self.message_queue.get(timeout=0.5) returns an item
SpkGet ==
    /\ spkPc = "get"
    /\ message_queue # <<>>
    /\ text' = Head(message_queue)
    /\ message_queue' = Tail(message_queue)
    /\ popped' = Append(popped, Head(message_queue))
    /\ spkPc' = "pause_wait"
    /\ UNCHANGED <<config, mainVars, pause_event, shutdown_event, ready_event,
                   chatVars, client, attempted, pushed, spoken, pausedAtShutdown>>

\* lines 77, 101-103: the queue stays empty for the whole timeout; queue.Empty
SpkGetEmpty ==
    /\ spkPc = "get"
    /\ message_queue = <<>>
    /\ spkPc' = "loop"
    /\ UNCHANGED <<config, mainVars, message_queue, pause_event, shutdown_event,
                   ready_event, chatVars, client, text, histVars, pausedAtShutdown>>

\* SpkPauseWait that goes on to speak whatever the flag is
SpkPauseWaitNoGate ==
    /\ spkPc = "pause_wait"
    /\ spkPc' = "check2"
    /\ UNCHANGED <<config, mainVars, message_queue, pause_event, shutdown_event,
                   ready_event, chatVars, client, text, histVars,
                   pausedAtShutdown>>

\* line 82: self.pause_event.wait(timeout=0.5) returns the flag
SpkPauseWait ==
    /\ spkPc = "pause_wait"
    /\ spkPc' = IF pause_event THEN "check2" ELSE "inner_check"
    /\ UNCHANGED <<config, mainVars, message_queue, pause_event, shutdown_event,
                   ready_event, chatVars, client, text, histVars, pausedAtShutdown>>

\* lines 83-84: if self.shutdown_event.is_set(): break
SpkInnerCheck ==
    /\ spkPc = "inner_check"
    /\ spkPc' = IF shutdown_event THEN "check2" ELSE "pause_wait"
    /\ UNCHANGED <<config, mainVars, message_queue, pause_event, shutdown_event,
                   ready_event, chatVars, client, text, histVars, pausedAtShutdown>>

\* lines 87-88, 99: if self.shutdown_event.is_set(): break (through the
\* finally of line 97, out of the loop of line 73)
SpkCheck2 ==
    /\ spkPc = "check2"
    /\ spkPc' = IF shutdown_event THEN "cleanup" ELSE "speak"
    /\ UNCHANGED <<config, mainVars, message_queue, pause_event, shutdown_event,
                   ready_event, chatVars, client, text, histVars, pausedAtShutdown>>

\* SpkSpeak without the call of speak
SpkSpeakSkip ==
    /\ spkPc = "speak"
    /\ spkPc' = "loop"
    /\ UNCHANGED <<config, mainVars, message_queue, pause_event, shutdown_event,
                   ready_event, chatVars, client, text, histVars,
                   pausedAtShutdown>>

\* SpkSpeak with an error of speak that escapes the loop of line 73
SpkSpeakFatal ==
    /\ spkPc = "speak"
    /\ spoken' = IF client # None THEN Append(spoken, text) ELSE spoken
    /\ spkPc' \in {"loop", "cleanup"}
    /\ UNCHANGED <<config, mainVars, message_queue, pause_event, shutdown_event,
                   ready_event, chatVars, client, text, attempted, pushed, popped,
                   pausedAtShutdown>>

\* lines 91-99: print(text); self.client.speak(text); task_done(); speak
\* returns, or it raises and the handler of line 104 is entered
SpkSpeak ==
    /\ spkPc = "speak"
    /\ spoken' = IF client # None THEN Append(spoken, text) ELSE spoken
    /\ \/ spkPc' = "loop"
       \/ client # None /\ spkPc' = "speak_except"
    /\ UNCHANGED <<config, mainVars, message_queue, pause_event, shutdown_event,
                   ready_event, chatVars, client, text, attempted, pushed, popped,
                   pausedAtShutdown>>

\* SpkSpeakExcept with a handler that sends the same text again
SpkSpeakExceptRetry ==
    /\ spkPc = "speak_except"
    /\ spkPc' = "speak"
    /\ UNCHANGED <<config, mainVars, message_queue, pause_event, shutdown_event,
                   ready_event, chatVars, client, text, histVars, pausedAtShutdown>>

\* lines 104-106: the error is printed; the loop of line 73 goes on
SpkSpeakExcept ==
    /\ spkPc = "speak_except"
    /\ spkPc' = "loop"
    /\ UNCHANGED <<config, mainVars, message_queue, pause_event, shutdown_event,
                   ready_event, chatVars, client, text, histVars, pausedAtShutdown>>

\* lines 110-114, 116-118: if self.client: self.client.cancel(); cancel
\* returns, or it raises: the handler of line 116 logs it and close is skipped
SpkCleanup ==
    /\ spkPc = "cleanup"
    /\ \/ spkPc' = IF client # None THEN "close" ELSE "stopped"
       \/ client # None /\ spkPc' = "stopped"
    /\ UNCHANGED <<config, mainVars, message_queue, pause_event, shutdown_event,
                   ready_event, chatVars, client, text, histVars,
                   pausedAtShutdown>>

\* lines 115-118: self.client.close(); close returns, or it raises and the
\* handler of line 116 logs it
SpkClose ==
    /\ spkPc = "close"
    /\ client' \in {"closed", client}
    /\ spkPc' = "stopped"
    /\ UNCHANGED <<config, mainVars, message_queue, pause_event, shutdown_event,
                   ready_event, chatVars, text, histVars, pausedAtShutdown>>

(***************************************************************************)
(* The program                                                             *)
(***************************************************************************)
Main ==
    \/ MainValidate \/ MainStartTts \/ MainStartChat \/ MainLoop \/ MainInput
    \/ MainEOF \/ MainFault \/ MainDispatch \/ MainJoinChat \/ MainJoinTts
    \/ SigInt

Chat ==
    \/ ChatConstruct \/ ChatGetChat \/ ChatGetChatFail \/ ChatPull
    \/ ChatEndOfStream \/ ChatPullFault \/ ChatCheck \/ ChatPut \/ ChatPutFull
    \/ ChatExcept

Speaker ==
    \/ SpkSetup \/ SpkReadyFailed \/ SpkReady \/ SpkLoop \/ SpkGet
    \/ SpkGetEmpty \/ SpkPauseWait \/ SpkInnerCheck \/ SpkCheck2 \/ SpkSpeak
    \/ SpkSpeakExcept \/ SpkCleanup \/ SpkClose

Next == Main \/ Chat \/ Speaker

Spec == Init /\ [][Next]_vars

\* The specifications with fairness run main() at the smallest capacity:
\* what they are used for does not depend on how many items the channel
\* can hold.
FairInit == Init /\ config.queue_max_size <= 1

\* The Speech Worker's thread is scheduled, and each of its blocking calls
\* returns: get and wait carry a timeout of 0.5 s.
SpkFairSpec == FairInit /\ [][Next]_vars /\ WF_vars(Speaker)

\* the steps main() takes by itself: every step but the return of input()
MainStep ==
    \/ MainValidate \/ MainStartTts \/ MainStartChat \/ MainLoop
    \/ MainDispatch \/ MainJoinChat \/ MainJoinTts

\* Every thread is scheduled and every call with a timeout returns.  Nothing
\* is assumed of the operator: input() of line 197 has no timeout and
\* returns only when a line, the end of input or an error arrives.
MainFairSpec ==
    /\ FairInit /\ [][Next]_vars
    /\ WF_vars(MainStep) /\ WF_vars(Chat) /\ WF_vars(Speaker)

\* The Ingestion Worker's thread is scheduled, put carries a timeout of
\* 0.1 s, and each pull from the upstream source returns: with a message,
\* with the end of the stream, or with an exception.
ChatFairSpec == FairInit /\ [][Next]_vars /\ WF_vars(Chat)

\* The main thread is scheduled once it has a command, and each join
\* carries a timeout of 2 s.  Nothing is assumed of the workers.
JoinFairSpec ==
    /\ FairInit /\ [][Next]_vars
    /\ WF_vars(MainDispatch) /\ WF_vars(MainJoinChat) /\ WF_vars(MainJoinTts)

(***************************************************************************)
(* Properties                                                              *)
(***************************************************************************)
RECURSIVE IsSubseq(_, _)
IsSubseq(a, b) ==
    IF a = <<>> THEN TRUE
    ELSE IF b = <<>> THEN FALSE
    ELSE IF Head(a) = Head(b) THEN IsSubseq(Tail(a), Tail(b))
    ELSE IsSubseq(a, Tail(b))

IsPrefix(a, b) == Len(a) <= Len(b) /\ a = SubSeq(b, 1, Len(a))

\* the Speech Worker holds a dequeued item it has not yet spoken or dropped
Holding == spkPc \in {"pause_wait", "inner_check", "check2", "speak"}

\* C1: the channel never holds more items than its capacity
C1_LengthAtMostCapacity ==
    Len(message_queue) <= config.queue_max_size

\* a push is pending on a channel that is full at the largest capacity
C1_Witness ==
    /\ chatPc = "put"
    /\ config.queue_max_size = MaxCap
    /\ Len(message_queue) = MaxCap

\* C2: as long as nothing has been popped, the channel holds the first
\* min(N, C) of the N items pushed, in order; a push on a full channel
\* leaves the channel as it is and the worker goes on to its next pull
C2_DropNewest ==
    /\ [](popped = <<>> =>
            message_queue = SubSeq(attempted, 1,
                              Min(Len(attempted), config.queue_max_size)))
    /\ [][(chatPc = "put" /\ chatPc' # "put"
             /\ Len(message_queue) >= config.queue_max_size)
          => (message_queue' = message_queue /\ chatPc' = "pull")]_vars

\* capacity 1, two pushes and no pop: only the first item is in the channel
C2_Witness ==
    /\ config.queue_max_size = 1
    /\ popped = <<>>
    /\ Len(attempted) = 2
    /\ message_queue = <<attempted[1]>>

\* C3: what was sent to the speech device is a subsequence of what was
\* accepted by the channel, in the same order
C3_SpokenSubseqOfPushed ==
    IsSubseq(spoken, pushed)

\* two items were spoken, with a pause toggled and shutdown set on the way
C3_Witness ==
    /\ Len(spoken) = 2
    /\ ~pause_event
    /\ shutdown_event

\* C4: no item is sent to the speech device while pause is active (every
\* speak step is taken with pause_event set), and the items are spoken in
\* the order in which they were buffered
C4_NoSpeakWhilePaused ==
    /\ [][spoken' # spoken => pause_event]_vars
    /\ [](IsPrefix(spoken, pushed))

\* C5: every item the Speech Worker has removed from the channel and is
\* done with has been sent to the speech device
C5_NoLossOnceDequeued ==
    ~Holding => popped = spoken

\* C5, amended: every item the Speech Worker has removed from the channel
\* and is done with has been sent to the speech device, except the one item
\* it held when it saw shutdown set, after which it leaves its loop
C5_NoLossOnceDequeuedUnlessShutdown ==
    ~Holding =>
        \/ popped = spoken
        \/ /\ shutdown_event
           /\ spkPc \in {"cleanup", "close", "stopped"}
           /\ popped = Append(spoken, text)

\* one item was dequeued and spoken, the next was dequeued and dropped on
\* shutdown
C5_Witness ==
    /\ spkPc = "stopped"
    /\ Len(spoken) = 1
    /\ popped = Append(spoken, text)

\* C6: once shutdown has been set while pause was active and items were
\* buffered, no item is sent to the speech device any more, and the Speech
\* Worker reaches its stopped state
C6_ShutdownWhilePaused ==
    /\ [][(shutdown_event /\ pausedAtShutdown) => spoken' = spoken]_vars
    /\ (shutdown_event /\ pausedAtShutdown) ~> Terminated(spkPc)

\* C7: when the Orchestrator waits for the workers, shutdown is set
C7_ShutdownSetBeforeJoin ==
    mainPc \in {"join_chat", "join_tts", "done"} => shutdown_event

\* C8: once the operator has sent q, the Orchestrator reaches its final
\* state
C8_QuitTerminates ==
    (mainPc = "dispatch" /\ cmd = "q") ~> (mainPc = "done")

\* the Orchestrator is done after q while the Speech Worker still waits at
\* the pause gate and the Ingestion Worker is still streaming
C8_Witness ==
    /\ mainPc = "done"
    /\ cmd = "q"
    /\ spkPc \in {"pause_wait", "inner_check"}
    /\ ~pause_event
    /\ ~Terminated(chatPc)

C10_ReadyAlwaysSet ==
    /\ (spkPc = "setup") ~> ready_event
    /\ [](ready_event => spkPc \notin {"idle", "setup", "ready_failed", "ready"})
    /\ [](spkPc \in {"ready_failed", "failed"} => popped = <<>> /\ spoken = <<>>)
    /\ [][(spkPc \in {"ready_failed", "failed"})
            => (spkPc' \in {"ready_failed", "failed"})]_vars

\* initialization failed, consumer-ready is set, and an item sits in the
\* channel
C10_Witness ==
    /\ spkPc = "failed"
    /\ ready_event
    /\ message_queue # <<>>

\* the item the Speech Worker holds is the last one sent to the speech device
SpokeText == spoken # <<>> /\ spoken[Len(spoken)] = text

\* C11: an error of speak does not end the Speech Worker: from the speak
\* step and from the error handler it stays in its loop, which it leaves
\* only with shutdown set; after a failed speak an item waiting in the
\* channel is popped unless shutdown is set, and an item the worker holds is
\* sent to the speech device unless shutdown is set or pause is active
C11_SpeakErrorIsolated ==
    /\ [][(spkPc \in {"speak", "speak_except"})
            => (spkPc' \in {"speak", "speak_except", "loop"})]_vars
    /\ [][(spkPc # "cleanup" /\ spkPc' = "cleanup") => shutdown_event]_vars
    /\ (spkPc = "speak_except" /\ message_queue # <<>>)
          ~> (spkPc = "pause_wait" \/ shutdown_event)
    /\ (spkPc = "pause_wait") ~> (SpokeText \/ shutdown_event \/ ~pause_event)

\* the speak of the first item has failed, the worker is in the handler, the
\* next item waits in the channel, and neither shutdown nor pause is active
C11_Witness ==
    /\ spkPc = "speak_except"
    /\ Len(spoken) = 1
    /\ message_queue # <<>>
    /\ ~shutdown_event
    /\ pause_event

\* C12: the Speech Worker leaves its loop into the cleanup, where cancel is
\* called; close is called only after cancel, and the worker that has left
\* its loop terminates only out of the call of close
C12_CancelThenClose ==
    /\ [][(spkPc \in {"loop", "check2"} /\ spkPc' \notin {"loop", "get", "speak", "check2"})
            => spkPc' = "cleanup"]_vars
    /\ [][(spkPc # "close" /\ spkPc' = "close") => spkPc = "cleanup"]_vars
    /\ [][(spkPc # "stopped" /\ spkPc' = "stopped") => spkPc = "close"]_vars

\* the configurations the specification calls invalid
InvalidByRange ==
    \/ config.youtube_url = ""
    \/ config.speech_rate < -100 \/ config.speech_rate > 100
    \/ config.speech_pitch < -100 \/ config.speech_pitch > 100
    \/ config.speech_volume < 0 \/ config.speech_volume > 100
    \/ config.max_message_length < 1
    \/ config.queue_max_size < 1

\* nothing of the pipeline has been created or started
NothingStarted ==
    /\ chatPc = "idle" /\ spkPc = "idle"
    /\ downloader = None /\ client = None
    /\ message_queue = <<>> /\ attempted = <<>>
    /\ ~shutdown_event /\ ~ready_event /\ pause_event

\* C13: with an invalid configuration the Orchestrator goes from validation
\* straight to the exit with code 1 and stays there; no worker is ever
\* started, the channel and the signals are never touched, and the interrupt
\* handler is never run
C13_InvalidConfigExits ==
    /\ [](InvalidByRange => (mainPc \in {"validate", "exit1"} /\ NothingStarted))
    /\ [][(InvalidByRange /\ mainPc = "validate" /\ mainPc' # "validate")
            => mainPc' = "exit1"]_vars
    /\ [][(mainPc = "exit1") => UNCHANGED vars]_vars

C13_Witness == mainPc = "exit1" /\ InvalidByRange /\ NothingStarted

\* the Orchestrator has left the command loop of line 195
LeftCommandLoop == mainPc \in {"join_chat", "join_tts", "done"}

\* C14: once the interrupt handler has set the shutdown signal (it is set
\* and the Ingestion Worker did not fail to connect), the Orchestrator
\* leaves the command loop, whatever the operator does
C14_InterruptLeavesLoop ==
    (shutdown_event /\ chatPc # "failed") ~> LeftCommandLoop

\* C15: after a worker failed to set its connection up, the Orchestrator
\* leaves the command loop
C15_SetupFailureLeavesLoop ==
    (chatPc = "failed" \/ spkPc = "failed") ~> LeftCommandLoop

\* C16 as stated: once shutdown is set the Ingestion Worker starts no pull
\* (it does not come back to line 115) and pushes no item
C16_NoPullNoPushAfterShutdown ==
    [][shutdown_event
         => (pushed' = pushed /\ ~(chatPc # "pull" /\ chatPc' = "pull"))]_vars

\* C16: the check of line 117 comes after the pull: a pulled message whose
\* check finds shutdown set is discarded unpushed and the worker stops; with
\* shutdown set, a worker waiting in a pull or at the check never comes to a
\* push again, and a worker at the push makes that one push (or drop) and
\* starts one more pull - so at most one item is pushed and at most one
\* pull completed after shutdown was set
C16_CheckAfterPull ==
    /\ [][(shutdown_event /\ chatPc = "check")
            => (/\ chatPc' \in {"check", "stopped"}
                /\ pushed' = pushed /\ attempted' = attempted
                /\ pulled' = pulled /\ formatted' = formatted)]_vars
    /\ [][(shutdown_event /\ chatPc = "pull")
            => (/\ chatPc' \in {"pull", "check", "stopped", "except"}
                /\ pushed' = pushed /\ attempted' = attempted
                /\ pulled' <= pulled + 1)]_vars
    /\ [][(shutdown_event /\ chatPc = "put")
            => (/\ chatPc' \in {"put", "pull"}
                /\ Len(pushed') <= Len(pushed) + 1
                /\ pulled' = pulled)]_vars
    /\ [][(shutdown_event /\ chatPc \in {"stopped", "except", "failed"})
            => (/\ chatPc' \in {"stopped", "except", "failed"}
                /\ pushed' = pushed /\ attempted' = attempted
                /\ pulled' = pulled)]_vars
    /\ [][(shutdown_event /\ chatPc \in {"idle", "construct", "get_chat"})
            => (/\ chatPc' \notin {"check", "put"}
                /\ pushed' = pushed /\ attempted' = attempted
                /\ pulled' = pulled)]_vars

\* the first message, a text message with a body, was pulled and then
\* discarded by the check: it was never formatted and nothing was pushed
C16_Witness ==
    /\ shutdown_event
    /\ chatPc = "stopped"
    /\ pulled = 1
    /\ message # NoMessage
    /\ _format_message(message) # NoText /\ _format_message(message) # <<>>
    /\ formatted = NoText
    /\ attempted = <<>>

C18_ShutdownMonotonic == [][shutdown_event => shutdown_event']_vars

\* the signal was set by the Ingestion Worker's connection failure and is
\* still set when the Orchestrator and both workers have finished
C18_Witness ==
    /\ shutdown_event
    /\ chatPc = "failed"
    /\ spkPc = "stopped"
    /\ mainPc = "done"

\* the raw message in hand is of the plain-text kind and has a body
PlainTextWithBody ==
    message.message_type = "text_message" /\ message.message # <<>>

\* C19: the step that handles a pulled message (shutdown not set) goes on to
\* the push exactly when the message is plain text with a non-empty body,
\* and otherwise goes back to the pull; it leaves the channel as it is.  The
\* push that follows offers one item, carrying the number of the pull, and
\* the channel takes it when it has room.  So the items offered are, in
\* arrival order, those of the plain-text messages with a body.
C19_ItemIffPlainTextWithBody ==
    /\ [][(chatPc = "check" /\ ~shutdown_event /\ chatPc' # "check")
            => (/\ chatPc' = (IF PlainTextWithBody THEN "put" ELSE "pull")
                /\ message_queue' = message_queue
                /\ attempted' = attempted /\ pushed' = pushed)]_vars
    /\ [](chatPc = "put" => PlainTextWithBody)
    /\ [][(chatPc = "put" /\ chatPc' # "put")
            => (/\ Len(attempted') = Len(attempted) + 1
                /\ attempted'[Len(attempted')].id = pulled
                /\ SubSeq(attempted', 1, Len(attempted)) = attempted
                /\ (Len(message_queue) < config.queue_max_size
                      => message_queue' = Append(message_queue,
                                                 attempted'[Len(attempted')])))]_vars
    /\ [][(chatPc # "put") => attempted' = attempted]_vars

\* three messages pulled, the second one dropped for its kind or its empty
\* body, capacity for all: the channel holds exactly the items of the
\* first and the third message, in arrival order
C19_Witness ==
    /\ pulled = 3
    /\ chatPc = "pull"
    /\ popped = <<>>
    /\ Len(message_queue) = 2
    /\ message_queue[1].id = 1 /\ message_queue[2].id = 3
    /\ attempted = message_queue

\* the Speech Worker is at the pause gate of lines 82-84
AtGate == spkPc \in {"pause_wait", "inner_check"}

\* the Speech Worker is on its way out after shutdown
LeavingAfterShutdown ==
    shutdown_event /\ spkPc \in {"check2", "cleanup", "close", "stopped"}

\* C20: at most one item is removed from the channel and not yet spoken; a
\* pop takes one item and brings the worker to the pause gate; while pause
\* is active a worker at the gate stays there, popping nothing, unless
\* shutdown is set, and then it leaves without a further pop; so during a
\* pause at most one item is removed, and the items accepted and not
\* spoken are those in the channel plus at most the one held: C + 1
C20_OneHeldItem ==
    /\ [](Len(popped) <= Len(spoken) + 1)
    /\ [](Len(pushed) = Len(popped) + Len(message_queue))
    /\ [](Len(pushed) - Len(spoken) <= config.queue_max_size + 1)
    /\ [](AtGate => popped = Append(spoken, text))
    /\ [][(popped' # popped)
            => (/\ spkPc = "get" /\ spkPc' = "pause_wait"
                /\ Len(popped') = Len(popped) + 1
                /\ popped = spoken)]_vars
    /\ [][(AtGate /\ ~pause_event)
            => (/\ popped' = popped
                /\ \/ AtGate'
                   \/ shutdown_event /\ spkPc' = "check2")]_vars
    /\ [][LeavingAfterShutdown => (LeavingAfterShutdown' /\ popped' = popped)]_vars

\* pause is active, the worker holds one item at the gate and the channel
\* is full behind it: C + 1 items accepted and not spoken
C20_Witness ==
    /\ ~pause_event
    /\ ~shutdown_event
    /\ AtGate
    /\ config.queue_max_size = MaxCap
    /\ Len(message_queue) = MaxCap
    /\ Len(pushed) - Len(spoken) = MaxCap + 1

\* no element occurs twice in the sequence
NoDuplicate(s) == \A i, j \in 1..Len(s) : s[i] = s[j] => i = j

\* every element of s is an element of t
AllIn(s, t) == \A i \in 1..Len(s) : \E j \in 1..Len(t) : s[i] = t[j]

\* C21: every item accepted by the channel is popped at most once and sent
\* to the speech device at most once; what is popped was accepted and what
\* is sent was popped; never more items are sent than were accepted
C21_NoDuplication ==
    /\ NoDuplicate(pushed)
    /\ NoDuplicate(popped) /\ AllIn(popped, pushed)
    /\ NoDuplicate(spoken) /\ AllIn(spoken, popped)
    /\ Len(spoken) <= Len(popped) /\ Len(popped) <= Len(pushed)

\* a run with a pause toggle, a speech error and shutdown: the second item
\* was sent and speak raised, a third item is accepted behind it
C21_Witness ==
    /\ spkPc = "speak_except"
    /\ Len(spoken) = 2
    /\ Len(pushed) = 3
    /\ ~pause_event
    /\ shutdown_event

====
